---- MODULE Spec2Model ----
(***************************************************************************)
(* ZapStream event inbox: the deployed Lambda handler (lambda_simple.py)   *)
(* over the DynamoDB table ZapStreamEventsTable.                           *)
(*                                                                         *)
(* Every request runs in its own handler invocation; the only shared       *)
(* state is the table, and every table call (put_item, update_item,        *)
(* delete_item, scan) is one atomic step.  A handler that writes is split  *)
(* at its table call: the first step authenticates, parses and builds the  *)
(* request, the second step is the table call together with the response. *)
(*                                                                         *)
(* Spec is the handler with every request; SpecInbox adds the passing of   *)
(* time and SpecBacklog starts from a table of ScanLimit events.  The rate *)
(* limiter (SpecLimiter) and the real-time fan-out (SpecStream) are not    *)
(* part of the handler; they follow the design document.  SpecStream also  *)
(* holds the end of the ingestion that publishes; SpecStreamIngestFair and *)
(* SpecStreamHeartbeatFair add the fairness of the ingest calls and of the *)
(* heartbeat.  SpecDashboard is the event list of the dashboard client.    *)
(***************************************************************************)
EXTENDS Integers, FiniteSets, Sequences, TLC

\* ---- bounds of the model ----
MaxIds == 2          \* number of distinct uuid4 values that can be drawn
MaxInflight == 2     \* handler invocations suspended at their table call
MaxCalls == 4        \* requests that reach their table call
MaxClock == 2        \* largest value datetime.utcnow() takes
WindowLen == 2       \* clock values in one rate-limit window (one minute)
RateLimitPerMinute == 1  \* configured capacity of the rate limiter
MaxAdmits == 2       \* admit calls that have arrived and are not yet answered
MaxStreams == 2      \* streams ever subscribed
MaxPublished == 2    \* events ever published to the fan-out
QueueCap == 1        \* frames a stream holds for a client that does not read
MaxFetching == 2     \* answers to GET /inbox on their way to the dashboard

\* ---- program constants ----
ScanLimit == 50      \* table.scan(..., Limit=50)
LocalCap == 100      \* [convertedEvent, ...prev].slice(0, 100)

VARIABLES
    table,           \* the items of ZapStreamEventsTable (one per tenant_id, event_id)
    used,            \* uuid4 values already drawn (a uuid4 is never drawn twice)
    clock,           \* current value of datetime.utcnow(); Spec lets no time pass
    inflight,        \* requests whose handler is suspended at its table call
    resp,            \* the last response sent by a handler
    pre,             \* the items found under its key by the table write that sent resp
    ingestOk,        \* history: (tenant, idempotency key, event id) of every 201
    deletedOk,       \* history: keys of events whose DELETE returned 200
    racedIngest,     \* history: (tenant, key) for which two POST /events overlapped
    racedAckDel,     \* history: keys of pending events with ack and delete overlapping
    calls,           \* number of requests that were started on their table call
    limiterCount,    \* rate limiter: per credential, the window it counts and the count
    admits,          \* rate limiter: admit calls that have arrived and are not answered
    allowed,         \* history: per credential and window, the calls answered Allowed
    streams,         \* fan-out: the registered streams, each with its tenant
    delivered,       \* fan-out: per stream id, the events written to it, in order
    published,       \* history: the publish calls, each with the streams then registered
    pipeline,        \* ingestion: calls that have resolved their event and go on to publish
    consumed,        \* fan-out: per stream id, the number of frames its client has read
    events,          \* dashboard: the local list of events (useState<Event[]>)
    fetching         \* dashboard: answers to GET /inbox on their way to the dashboard

limiterVars == <<limiterCount, admits, allowed>>
fanoutVars == <<streams, delivered, published, pipeline, consumed>>
dashboardVars == <<events, fetching>>

vars == <<table, used, clock, inflight, resp, pre, ingestOk, deletedOk,
          racedIngest, racedAckDel, calls, limiterVars, fanoutVars,
          dashboardVars>>

None == "None"
\* uuid4 values, numbered in the order of their strings (the sort key order)
Ids == 1..MaxIds
\* the rate-limit windows the clock passes through
Windows == 0..(MaxClock \div WindowLen)
StreamIds == 1..MaxStreams

\* API_KEYS = {'dev_key_123': 'tenant_dev', 'prod_key_456': 'tenant_prod'}
API_KEYS == [k \in {"dev_key_123", "prod_key_456"} |->
                IF k = "dev_key_123" THEN "tenant_dev" ELSE "tenant_prod"]

Tenants == {API_KEYS[k] : k \in DOMAIN API_KEYS}

\* The credentials a request carries.  scheme and key are its Authorization
\* header: scheme "Bearer" followed by a key, or a header that does not start
\* with "Bearer " (scheme "").  x_api_key is its X-API-Key header and api_key its
\* api_key query parameter, None when the request has none.
AuthHeaders ==
    {[scheme |-> "Bearer", key |-> k, x_api_key |-> None, api_key |-> None] :
        k \in {"dev_key_123", "prod_key_456", "bad_key"}}
        \cup {[scheme |-> "", key |-> "dev_key_123", x_api_key |-> None,
                api_key |-> None]}

\* Requests that carry a key outside the Authorization header: an X-API-Key
\* header alone, an api_key query parameter alone, and the headers the
\* dashboard client sends (Authorization: Bearer together with X-API-Key).
KeyHeaders ==
    {[scheme |-> "", key |-> "", x_api_key |-> "prod_key_456", api_key |-> None],
     [scheme |-> "", key |-> "", x_api_key |-> None, api_key |-> "dev_key_123"],
     [scheme |-> "Bearer", key |-> "dev_key_123", x_api_key |-> "prod_key_456",
      api_key |-> None]}

Requests == AuthHeaders \cup KeyHeaders

\* a lookup that falls back to the development tenant: API_KEYS.get(api_key, 'tenant_dev')
get_tenant_or_default(h) ==
    IF h.scheme = "Bearer"
    THEN IF h.key \in DOMAIN API_KEYS THEN API_KEYS[h.key] ELSE "tenant_dev"
    ELSE None

get_tenant_from_auth(h) ==
    IF h.scheme = "Bearer"
    THEN IF h.key \in DOMAIN API_KEYS THEN API_KEYS[h.key] ELSE None
    ELSE None

\* ---- request bodies of POST /events ----
Draft == [source |-> "billing", type |-> "invoice.paid", topic |-> "finance",
          payload |-> "p1"]
KeyedDraft == [source |-> "billing", type |-> "invoice.paid", topic |-> "finance",
               payload |-> "p1", idempotency_key |-> "k1"]
NoTopicDraft == [source |-> "billing", type |-> "invoice.paid", payload |-> "p1"]
MalformedBody == [raw |-> "{"]
Bodies == {Draft, KeyedDraft, NoTopicDraft, MalformedBody}

\* json.loads raises on a body that is not JSON
JsonLoadsRaises(body) == "raw" \in DOMAIN body

required_fields == {"source", "type", "topic", "payload"}

MissingField(body) == \E f \in required_fields : f \notin DOMAIN body

BodyKey(body) == IF "idempotency_key" \in DOMAIN body THEN body.idempotency_key ELSE None

\* item = {...}; if 'idempotency_key' in body: item['idempotency_key'] = ...
NewItem(tenant, id, now, body) ==
    IF "idempotency_key" \in DOMAIN body
    THEN [tenant_id |-> tenant, event_id |-> id, created_at |-> now,
          source |-> body.source, type |-> body.type, topic |-> body.topic,
          payload |-> body.payload, status |-> "pending",
          idempotency_key |-> body.idempotency_key]
    ELSE [tenant_id |-> tenant, event_id |-> id, created_at |-> now,
          source |-> body.source, type |-> body.type, topic |-> body.topic,
          payload |-> body.payload, status |-> "pending"]

\* ---- the DynamoDB table (partition key tenant_id, sort key event_id) ----
ItemsAt(tbl, tenant, id) == {i \in tbl : i.tenant_id = tenant /\ i.event_id = id}

\* a put conditioned on the idempotency key being unused by any tenant
PutItemKeyUnused(tbl, item) ==
    IF /\ "idempotency_key" \in DOMAIN item
       /\ \E i \in tbl : /\ "idempotency_key" \in DOMAIN i
                          /\ i.idempotency_key = item.idempotency_key
    THEN tbl
    ELSE (tbl \ ItemsAt(tbl, item.tenant_id, item.event_id)) \cup {item}

\* put_item: replaces the item with the same primary key
PutItem(tbl, item) ==
    (tbl \ ItemsAt(tbl, item.tenant_id, item.event_id)) \cup {item}

\* an update that also counts the acknowledgements (SET #status = :status ADD acks 1)
UpdateItemCountAcks(tbl, tenant, id, st) ==
    IF ItemsAt(tbl, tenant, id) = {}
    THEN tbl \cup {[tenant_id |-> tenant, event_id |-> id, status |-> st, acks |-> 1]}
    ELSE {IF i.tenant_id = tenant /\ i.event_id = id
          THEN IF "acks" \in DOMAIN i
               THEN [i EXCEPT !.status = st, !.acks = @ + 1]
               ELSE ("acks" :> 1) @@ [i EXCEPT !.status = st]
          ELSE i : i \in tbl}

\* update_item with SET #status = :status and no ConditionExpression:
\* sets the attribute on the item, or creates the item from the key when absent
UpdateItemSetStatus(tbl, tenant, id, st) ==
    IF ItemsAt(tbl, tenant, id) = {}
    THEN tbl \cup {[tenant_id |-> tenant, event_id |-> id, status |-> st]}
    ELSE {IF i.tenant_id = tenant /\ i.event_id = id
          THEN [i EXCEPT !.status = st] ELSE i : i \in tbl}

\* a delete that keeps the item as a tombstone (status = deleted)
DeleteItemTombstone(tbl, tenant, id) ==
    {IF i.tenant_id = tenant /\ i.event_id = id
     THEN [i EXCEPT !.status = "deleted"] ELSE i : i \in tbl}

\* delete_item with no ConditionExpression: removes the item, if any
DeleteItem(tbl, tenant, id) == tbl \ ItemsAt(tbl, tenant, id)

\* ---- scan ----
RECURSIVE SortById(_)
\* the items of one partition, in sort-key (event_id) order
SortById(S) ==
    IF S = {} THEN <<>>
    ELSE LET m == CHOOSE i \in S : \A j \in S : i.event_id <= j.event_id
         IN  <<m>> \o SortById(S \ {m})

\* The order in which a scan visits the partitions is fixed by DynamoDB's hash
\* of the partition key and is not specified: either order can be the real one.
PartitionOrders == {<<"tenant_dev", "tenant_prod">>, <<"tenant_prod", "tenant_dev">>}

RECURSIVE ScanOrder(_, _)
ScanOrder(tbl, po) ==
    IF po = <<>> THEN <<>>
    ELSE SortById({i \in tbl : i.tenant_id = Head(po)}) \o ScanOrder(tbl, Tail(po))

\* a scan that sends no FilterExpression
FilterExpressionNone(item, tenant) == TRUE

\* FilterExpression='tenant_id = :tenant_id'
FilterExpression(item, tenant) == item.tenant_id = tenant

\* table.scan(FilterExpression=..., Limit=50): Limit bounds the items the scan
\* evaluates, the filter is applied to those; LastEvaluatedKey is not followed.
Scan(tbl, po, tenant) ==
    LET all == ScanOrder(tbl, po)
        n == IF Len(all) < ScanLimit THEN Len(all) ELSE ScanLimit
    IN  SelectSeq(SubSeq(all, 1, n), LAMBDA i : FilterExpression(i, tenant))

\* the attributes the listing reads with item[...]
ListFields == {"event_id", "created_at", "source", "type", "topic", "payload", "status"}

\* item['created_at'] etc. raise KeyError on an item without the attribute
InboxRaises(items) ==
    \E n \in 1..Len(items) : \E f \in ListFields : f \notin DOMAIN items[n]

InboxEvent(item) ==
    [event_id |-> item.event_id, created_at |-> item.created_at,
     source |-> item.source, type |-> item.type, topic |-> item.topic,
     payload |-> item.payload, status |-> item.status]

InboxEvents(items) == [n \in 1..Len(items) |-> InboxEvent(items[n])]

\* ---- responses ----
Response(op, caller, code, body) ==
    [op |-> op, caller |-> caller, code |-> code, body |-> body]

Unauthorized(op) ==
    Response(op, None, 401, [error |-> "Invalid or missing API key"])

InternalError(op, caller) ==
    Response(op, caller, 500, [error |-> "Internal server error"])

Init ==
    /\ table = {}
    /\ used = {}
    /\ clock = 0
    /\ inflight = {}
    /\ resp = Response("none", None, 0, [error |-> "none"])
    /\ pre = {}
    /\ ingestOk = {}
    /\ deletedOk = {}
    /\ racedIngest = {}
    /\ racedAckDel = {}
    /\ calls = 0
    /\ limiterCount = [c \in DOMAIN API_KEYS |-> [window |-> 0, count |-> 0]]
    /\ admits = {}
    /\ allowed = [c \in DOMAIN API_KEYS |-> [w \in Windows |-> 0]]
    /\ streams = {}
    /\ delivered = [s \in StreamIds |-> <<>>]
    /\ published = <<>>
    /\ pipeline = {}
    /\ consumed = [s \in StreamIds |-> 0]
    /\ events = <<>>
    /\ fetching = {}

\* a response that touches nothing else
Reply(r) ==
    /\ resp' = r
    /\ pre' = {}
    /\ UNCHANGED <<table, used, clock, inflight, ingestOk, deletedOk,
                   racedIngest, racedAckDel, calls,
                   limiterVars, fanoutVars, dashboardVars>>

\* Requests in flight are told apart by what they ask; n numbers the copies of
\* one request that are in flight together.
Copy(req) ==
    CHOOSE n \in 1..MaxInflight :
        /\ [req EXCEPT !.n = n] \notin inflight
        /\ \A m \in 1..(n - 1) : [req EXCEPT !.n = m] \in inflight

Started(req) == [req EXCEPT !.n = Copy(req)]

HasRoom == Cardinality(inflight) < MaxInflight /\ calls < MaxCalls

\* ---- POST /events ----
\* up to the table call: authentication, json.loads, required fields, uuid4, utcnow
PostEvents(h, body) ==
    LET tenant == get_tenant_from_auth(h) IN
    \/ /\ tenant = None
       /\ Reply(Unauthorized("ingest"))
    \/ /\ tenant # None
       /\ JsonLoadsRaises(body)
       /\ Reply(InternalError("ingest", tenant))
    \/ /\ tenant # None
       /\ ~JsonLoadsRaises(body)
       /\ MissingField(body)
       /\ Reply(Response("ingest", tenant, 400, [error |-> "Missing required field"]))
    \/ /\ tenant # None
       /\ ~JsonLoadsRaises(body)
       /\ ~MissingField(body)
       /\ HasRoom
       /\ \E id \in Ids \ used :
            /\ used' = used \cup {id}
            /\ inflight' = inflight \cup
                 {Started([n |-> 0, op |-> "ingest", tenant_id |-> tenant,
                           event_id |-> id,
                           item |-> NewItem(tenant, id, clock, body)])}
       /\ racedIngest' =
            IF BodyKey(body) # None
               /\ \E r \in inflight : /\ r.op = "ingest"
                                      /\ r.tenant_id = tenant
                                      /\ "idempotency_key" \in DOMAIN r.item
                                      /\ r.item.idempotency_key = BodyKey(body)
            THEN racedIngest \cup {<<tenant, BodyKey(body)>>}
            ELSE racedIngest
       /\ calls' = calls + 1
       /\ UNCHANGED <<table, clock, resp, pre, ingestOk, deletedOk, racedAckDel,
                      limiterVars, fanoutVars, dashboardVars>>

\* table.put_item(Item=item); return response(201, ...)
PostEventsPut(r) ==
    /\ r \in inflight
    /\ r.op = "ingest"
    /\ pre' = ItemsAt(table, r.tenant_id, r.event_id)
    /\ table' = PutItem(table, r.item)
    /\ resp' = Response("ingest", r.tenant_id, 201,
                        [event_id |-> r.event_id, status |-> "created",
                         created_at |-> r.item.created_at])
    /\ ingestOk' =
         IF "idempotency_key" \in DOMAIN r.item
         THEN ingestOk \cup {[tenant_id |-> r.tenant_id,
                              key |-> r.item.idempotency_key,
                              event_id |-> r.event_id]}
         ELSE ingestOk
    /\ inflight' = inflight \ {r}
    /\ UNCHANGED <<used, clock, deletedOk, racedIngest, racedAckDel, calls,
                   limiterVars, fanoutVars, dashboardVars>>

\* an item written by POST /events (update_item on a missing key creates an
\* item that holds the key and status only)
IsEvent(i) == "created_at" \in DOMAIN i

PendingAt(tbl, tenant, id) ==
    \E i \in ItemsAt(tbl, tenant, id) : IsEvent(i) /\ i.status = "pending"

\* ---- POST /inbox/{id}/ack ----
\* up to the table call: authentication, event_id = path.split('/')[2]
PostAck(h, id) ==
    LET tenant == get_tenant_from_auth(h) IN
    \/ /\ tenant = None
       /\ Reply(Unauthorized("ack"))
    \/ /\ tenant # None
       /\ HasRoom
       /\ inflight' = inflight \cup
            {Started([n |-> 0, op |-> "ack", tenant_id |-> tenant, event_id |-> id])}
       /\ racedAckDel' =
            IF PendingAt(table, tenant, id)
               /\ \E r \in inflight :
                     r.op = "delete" /\ r.tenant_id = tenant /\ r.event_id = id
            THEN racedAckDel \cup {<<tenant, id>>}
            ELSE racedAckDel
       /\ calls' = calls + 1
       /\ UNCHANGED <<table, used, clock, resp, pre, ingestOk, deletedOk, racedIngest,
                      limiterVars, fanoutVars, dashboardVars>>

\* return response(200, {'event_id': event_id, 'status': 'acknowledged'})
AckResponse(tenant, id) ==
    Response("ack", tenant, 200, [event_id |-> id, status |-> "acknowledged"])

\* table.update_item(Key=..., UpdateExpression='SET #status = :status', ...)
PostAckUpdate(r) ==
    /\ r \in inflight
    /\ r.op = "ack"
    /\ pre' = ItemsAt(table, r.tenant_id, r.event_id)
    /\ table' = UpdateItemSetStatus(table, r.tenant_id, r.event_id, "acknowledged")
    /\ resp' = AckResponse(r.tenant_id, r.event_id)
    /\ inflight' = inflight \ {r}
    /\ UNCHANGED <<used, clock, ingestOk, deletedOk, racedIngest, racedAckDel, calls,
                   limiterVars, fanoutVars, dashboardVars>>

\* ---- DELETE /inbox/{id} ----
DeleteInbox(h, id) ==
    LET tenant == get_tenant_from_auth(h) IN
    \/ /\ tenant = None
       /\ Reply(Unauthorized("delete"))
    \/ /\ tenant # None
       /\ HasRoom
       /\ inflight' = inflight \cup
            {Started([n |-> 0, op |-> "delete", tenant_id |-> tenant, event_id |-> id])}
       /\ racedAckDel' =
            IF PendingAt(table, tenant, id)
               /\ \E r \in inflight :
                     r.op = "ack" /\ r.tenant_id = tenant /\ r.event_id = id
            THEN racedAckDel \cup {<<tenant, id>>}
            ELSE racedAckDel
       /\ calls' = calls + 1
       /\ UNCHANGED <<table, used, clock, resp, pre, ingestOk, deletedOk, racedIngest,
                      limiterVars, fanoutVars, dashboardVars>>

\* a delete that answers 404 when the item is not in the table
DeleteResponseNotFound(tenant, id) ==
    IF ItemsAt(table, tenant, id) = {}
    THEN Response("delete", tenant, 404, [error |-> "Not found"])
    ELSE Response("delete", tenant, 200, [event_id |-> id, status |-> "deleted"])

\* return response(200, {'event_id': event_id, 'status': 'deleted'})
DeleteResponse(tenant, id) ==
    Response("delete", tenant, 200, [event_id |-> id, status |-> "deleted"])

\* table.delete_item(Key={'tenant_id': tenant_id, 'event_id': event_id})
DeleteInboxDelete(r) ==
    /\ r \in inflight
    /\ r.op = "delete"
    /\ pre' = ItemsAt(table, r.tenant_id, r.event_id)
    /\ table' = DeleteItem(table, r.tenant_id, r.event_id)
    /\ resp' = DeleteResponse(r.tenant_id, r.event_id)
    /\ deletedOk' =
         IF \E i \in ItemsAt(table, r.tenant_id, r.event_id) : IsEvent(i)
         THEN deletedOk \cup {<<r.tenant_id, r.event_id>>}
         ELSE deletedOk
    /\ inflight' = inflight \ {r}
    /\ UNCHANGED <<used, clock, ingestOk, racedIngest, racedAckDel, calls,
                   limiterVars, fanoutVars, dashboardVars>>

\* ---- GET /inbox ----
\* query strings a caller may send; the handler reads none of them
Queries ==
    {[limit |-> 50, cursor |-> None, topic |-> None],
     [limit |-> 1, cursor |-> "c1", topic |-> "finance"]}

\* The handler's only access to shared state is the one scan, so the whole
\* handler is one step.  po is the partition order of the scan.
GetInbox(h, q, po) ==
    LET tenant == get_tenant_from_auth(h)
        items == Scan(table, po, tenant)
    IN
    \/ /\ tenant = None
       /\ Reply(Unauthorized("list"))
    \/ /\ tenant # None
       /\ InboxRaises(items)
       /\ Reply(InternalError("list", tenant))
    \/ /\ tenant # None
       /\ ~InboxRaises(items)
       /\ Reply(Response("list", tenant, 200,
                         [events |-> InboxEvents(items), count |-> Len(items),
                          limit |-> ScanLimit]))

Next ==
    \/ \E h \in AuthHeaders, body \in Bodies : PostEvents(h, body)
    \/ \E r \in inflight : PostEventsPut(r)
    \/ \E h \in AuthHeaders, id \in Ids : PostAck(h, id)
    \/ \E r \in inflight : PostAckUpdate(r)
    \/ \E h \in AuthHeaders, id \in Ids : DeleteInbox(h, id)
    \/ \E r \in inflight : DeleteInboxDelete(r)
    \/ \E h \in AuthHeaders, q \in Queries, po \in PartitionOrders : GetInbox(h, q, po)

Spec == Init /\ [][Next]_vars

(***************************************************************************)
(* Ingestion, acknowledgement and listing while time passes.  The steps    *)
(* are the handler's; the requests also include those that carry their key *)
(* outside the Authorization header, and a second draft under the same     *)
(* idempotency key.                                                        *)
(***************************************************************************)
\* datetime.utcnow() moves on
Tick ==
    /\ clock < MaxClock
    /\ clock' = clock + 1
    /\ UNCHANGED <<table, used, inflight, resp, pre, ingestOk, deletedOk,
                   racedIngest, racedAckDel, calls, limiterVars, fanoutVars, dashboardVars>>

KeyedDraftOther == [source |-> "crm", type |-> "lead.created", topic |-> "sales",
                    payload |-> "p2", idempotency_key |-> "k1"]

\* Here tenant_dev ingests and tenant_prod acknowledges; Spec has every
\* request from both.
IngestHeaders == {h \in Requests : h.key # "prod_key_456"}
AckHeaders == {h \in AuthHeaders : h.key # "dev_key_123"}

NextInbox ==
    \/ Tick
    \/ \E h \in IngestHeaders, body \in Bodies \cup {KeyedDraftOther} :
          PostEvents(h, body)
    \/ \E r \in inflight : PostEventsPut(r)
    \/ \E h \in AckHeaders, id \in Ids : PostAck(h, id)
    \/ \E r \in inflight : PostAckUpdate(r)
    \/ \E h \in Requests, q \in Queries, po \in PartitionOrders : GetInbox(h, q, po)

SpecInbox == Init /\ [][NextInbox]_vars

(***************************************************************************)
(* The inbox of a tenant that already holds as many events as one scan     *)
(* evaluates.                                                              *)
(***************************************************************************)
\* ScanLimit events of tenant_dev, ingested earlier under other uuid4 values
Backlog ==
    {NewItem("tenant_dev", MaxIds + n, 0, Draft) : n \in 1..ScanLimit}

InitBacklog ==
    /\ table = Backlog
    /\ used = {i.event_id : i \in Backlog}
    /\ clock = 0
    /\ inflight = {}
    /\ resp = Response("none", None, 0, [error |-> "none"])
    /\ pre = {}
    /\ ingestOk = {}
    /\ deletedOk = {}
    /\ racedIngest = {}
    /\ racedAckDel = {}
    /\ calls = 0
    /\ limiterCount = [c \in DOMAIN API_KEYS |-> [window |-> 0, count |-> 0]]
    /\ admits = {}
    /\ allowed = [c \in DOMAIN API_KEYS |-> [w \in Windows |-> 0]]
    /\ streams = {}
    /\ delivered = [s \in StreamIds |-> <<>>]
    /\ published = <<>>
    /\ pipeline = {}
    /\ consumed = [s \in StreamIds |-> 0]
    /\ events = <<>>
    /\ fetching = {}

NextBacklog ==
    \/ \E h \in IngestHeaders, body \in Bodies : PostEvents(h, body)
    \/ \E r \in inflight : PostEventsPut(r)
    \/ \E h \in AckHeaders, id \in Ids : PostAck(h, id)
    \/ \E r \in inflight : PostAckUpdate(r)
    \/ \E h \in AuthHeaders, q \in Queries, po \in PartitionOrders : GetInbox(h, q, po)

SpecBacklog == InitBacklog /\ [][NextBacklog]_vars

(***************************************************************************)
(* Tenant Resolver: resolve(credential), with the credential taken from    *)
(* the request in the order bearer token, X-API-Key header, api_key query  *)
(* parameter.                                                              *)
(***************************************************************************)
BearerToken(h) == IF h.scheme = "Bearer" THEN h.key ELSE ""

\* first non-empty wins
Credential(h) ==
    IF BearerToken(h) \notin {"", None} THEN BearerToken(h)
    ELSE IF h.x_api_key \notin {"", None} THEN h.x_api_key
    ELSE IF h.api_key \notin {"", None} THEN h.api_key
    ELSE ""

resolve(credential) ==
    IF credential \in DOMAIN API_KEYS THEN API_KEYS[credential] ELSE None

(***************************************************************************)
(* Rate Limiter: admit(credential, now) -> Allowed | Limited(retry_after), *)
(* a fixed-window counter keyed by credential.  Calls for one credential   *)
(* arrive concurrently; the check and the increment are one step.          *)
(***************************************************************************)
WindowOf(now) == now \div WindowLen

\* the time until the window ends and a slot frees
RetryAfter(now) == WindowLen - (now % WindowLen)

\* the counter of a credential, which starts again at zero in a new window
CountAt(credential, now) ==
    IF limiterCount[credential].window = WindowOf(now)
    THEN limiterCount[credential].count
    ELSE 0

AdmitSlot ==
    CHOOSE n \in 1..MaxAdmits :
        /\ \A a \in admits : a.n # n
        /\ \A m \in 1..(n - 1) : \E a \in admits : a.n = m

\* a call arrives; seen is the counter at that moment
AdmitArrive(credential) ==
    /\ Cardinality(admits) < MaxAdmits
    /\ admits' = admits \cup {[n |-> AdmitSlot, credential |-> credential,
                               seen |-> CountAt(credential, clock)]}
    /\ UNCHANGED <<table, used, clock, inflight, resp, pre, ingestOk, deletedOk,
                   racedIngest, racedAckDel, calls, limiterCount, allowed,
                   fanoutVars, dashboardVars>>

\* a check that compares the value read when the call arrived
CounterReadAtArrival(call) == call.seen

\* the value the check compares: the counter at the moment of the increment
CounterRead(call) == CountAt(call.credential, clock)

Admit(call) ==
    LET n == CounterRead(call)
        w == WindowOf(clock)
    IN
    /\ call \in admits
    /\ admits' = admits \ {call}
    /\ IF n < RateLimitPerMinute
       THEN /\ limiterCount' = [limiterCount EXCEPT ![call.credential] =
                                   [window |-> w, count |-> n + 1]]
            /\ allowed' = [allowed EXCEPT ![call.credential][w] = @ + 1]
            /\ resp' = Response("admit", call.credential, 200,
                                [outcome |-> "Allowed"])
       ELSE /\ UNCHANGED <<limiterCount, allowed, dashboardVars>>
            /\ resp' = Response("admit", call.credential, 429,
                                [outcome |-> "Limited",
                                 retry_after |-> RetryAfter(clock)])
    /\ pre' = {}
    /\ UNCHANGED <<table, used, clock, inflight, ingestOk, deletedOk,
                   racedIngest, racedAckDel, calls, fanoutVars, dashboardVars>>

NextLimiter ==
    \/ Tick
    \/ \E c \in DOMAIN API_KEYS : AdmitArrive(c)
    \/ \E a \in admits : Admit(a)

SpecLimiter == Init /\ [][NextLimiter]_vars

(***************************************************************************)
(* Real-time Fan-out: subscribe registers a stream on the channel of its   *)
(* tenant, publish writes an event to the streams registered on the        *)
(* channel of the event's tenant.                                          *)
(***************************************************************************)
\* the tenant_id query parameter a client may add to GET /inbox/stream
TenantParams == {None, "tenant_dev"}

Registered == {s \in streams : s.registered}

\* a subscribe that joins the channel named by the tenant_id query parameter
SubscribeTenantFromQuery(h, param) ==
    IF resolve(Credential(h)) # None /\ param # None
    THEN param
    ELSE resolve(Credential(h))

\* the channel a stream joins: that of the tenant its credential resolves to
SubscribeTenant(h, param) == resolve(Credential(h))

\* GET /inbox/stream
Subscribe(h, param) ==
    LET tenant == SubscribeTenant(h, param) IN
    \/ /\ tenant = None
       /\ Reply(Unauthorized("subscribe"))
    \/ /\ tenant # None
       /\ Cardinality(streams) < MaxStreams
       /\ streams' = streams \cup
            {[sid |-> Cardinality(streams) + 1, tenant_id |-> tenant,
              credential |-> Credential(h), registered |-> TRUE,
              connected |-> TRUE]}
       /\ resp' = Response("subscribe", tenant, 200,
                           [stream |-> Cardinality(streams) + 1])
       /\ pre' = {}
       /\ UNCHANGED <<table, used, clock, inflight, ingestOk, deletedOk,
                      racedIngest, racedAckDel, calls, limiterVars,
                      delivered, published, pipeline, consumed, dashboardVars>>

\* a stream with its registration removed
KeepRegistered(s) == s

Deregister(s) == [s EXCEPT !.registered = FALSE]

\* the server ends a stream on its side (read error, timeout) and deregisters
\* it; the client has not closed the connection
Unsubscribe(s) ==
    /\ s \in Registered
    /\ streams' = (streams \ {s}) \cup {Deregister(s)}
    /\ UNCHANGED <<table, used, clock, inflight, resp, pre, ingestOk, deletedOk,
                   racedIngest, racedAckDel, calls, limiterVars,
                   delivered, published, pipeline, consumed, dashboardVars>>

\* the client closes its EventSource (the cleanup of the stream effect); the
\* server still holds the registration
Cancel(s) ==
    /\ s \in streams
    /\ s.connected
    /\ streams' = (streams \ {s}) \cup {[s EXCEPT !.connected = FALSE]}
    /\ UNCHANGED <<table, used, clock, inflight, resp, pre, ingestOk, deletedOk,
                   racedIngest, racedAckDel, calls, limiterVars,
                   delivered, published, pipeline, consumed, dashboardVars>>

\* a write to a stream fails when its client has closed the connection
WriteFails(s) == ~s.connected

\* the periodic heartbeat on a registered stream: written and ignored by a
\* connected client, and the stream is deregistered when the write fails
Heartbeat(s) ==
    /\ s \in Registered
    /\ WriteFails(s)
    /\ streams' = (streams \ {s}) \cup {Deregister(s)}
    /\ UNCHANGED <<table, used, clock, inflight, resp, pre, ingestOk, deletedOk,
                   racedIngest, racedAckDel, calls, limiterVars,
                   delivered, published, pipeline, consumed, dashboardVars>>

\* the frames written to a stream that its client has not read yet
Unread(s) == Len(delivered[s.sid]) - consumed[s.sid]

\* the client's onmessage handler takes the next frame of its stream
Read(s) ==
    /\ s \in streams
    /\ s.connected
    /\ Unread(s) > 0
    /\ consumed' = [consumed EXCEPT ![s.sid] = @ + 1]
    /\ UNCHANGED <<table, used, clock, inflight, resp, pre, ingestOk, deletedOk,
                   racedIngest, racedAckDel, calls, limiterVars,
                   streams, delivered, published, pipeline, dashboardVars>>

\* a channel that keeps the streams that were deregistered
RecipientsEverSubscribed(tenant) == {s \in streams : s.tenant_id = tenant}

\* the streams on the channel of a tenant
Recipients(tenant) == {s \in Registered : s.tenant_id = tenant}

\* the streams of the channel that can take a frame now: the client is there
\* and the queue of the stream has room
Takers(tenant) ==
    {s \in Recipients(tenant) : ~WriteFails(s) /\ Unread(s) < QueueCap}

\* a publish that waits until every stream of the channel can take the frame
AwaitedUntilWritable(tenant) == Recipients(tenant) \ Takers(tenant)

\* the streams a publish waits for before it returns: none, the frame is
\* offered to each stream without waiting and dropped where it is not taken
Awaited(tenant) == {}

\* a pipeline that publishes whatever event the ingest resolved to
PublishCallsAlways(pl, call) == pl \cup {call}

\* step 5 of the ingestion: the call goes on to publish only when it has
\* created its event
PublishCalls(pl, call) == IF call.created THEN pl \cup {call} ELSE pl

\* an ingest refused by the payload validation (400) or the rate limiter (429)
IngestRejected(tenant, code) ==
    Reply(Response("ingest", tenant, code, [error |-> "rejected"]))

\* an ingest whose idempotency key resolves to an event the tenant holds:
\* the event is returned with created = false
IngestExisting(tenant, id) ==
    LET call == [tenant_id |-> tenant, event_id |-> id, created |-> FALSE] IN
    /\ \E i \in ItemsAt(table, tenant, id) : IsEvent(i)
    /\ call \notin pipeline
    /\ pipeline' = PublishCalls(pipeline, call)
    /\ resp' = Response("ingest", tenant, 200, [event_id |-> id, created |-> FALSE])
    /\ pre' = {}
    /\ UNCHANGED <<table, used, clock, inflight, ingestOk, deletedOk,
                   racedIngest, racedAckDel, calls, limiterVars,
                   streams, delivered, published, consumed, dashboardVars>>

\* an ingest that passed its gates writes its new event to the store
IngestPersist(tenant, id) ==
    LET call == [tenant_id |-> tenant, event_id |-> id, created |-> TRUE] IN
    /\ id \in Ids \ used
    /\ Len(published) + Cardinality(pipeline) < MaxPublished
    /\ used' = used \cup {id}
    /\ table' = PutItem(table, NewItem(tenant, id, clock, Draft))
    /\ pipeline' = PublishCalls(pipeline, call)
    /\ UNCHANGED <<clock, inflight, resp, pre, ingestOk, deletedOk,
                   racedIngest, racedAckDel, calls, limiterVars,
                   streams, delivered, published, consumed, dashboardVars>>

\* a frame put in front of the frames written before it
WriteFrameFirst(q, frame) == <<frame>> \o q

\* the frame is written after the frames written before it
WriteFrame(q, frame) == Append(q, frame)

\* publish(tenant_id, event) and the return of the ingest call: best-effort,
\* the event is written to the streams of the channel that take it (written)
\* and dropped for the others; a stream whose write fails is deregistered
Publish(call, written) ==
    LET tenant == call.tenant_id
        event == [tenant_id |-> tenant, event_id |-> call.event_id]
    IN
    /\ call \in pipeline
    /\ Len(published) < MaxPublished
    /\ Awaited(tenant) = {}
    /\ written \subseteq Takers(tenant)
    /\ delivered' = [sid \in StreamIds |->
                        IF \E s \in written : s.sid = sid
                        THEN WriteFrame(delivered[sid], event)
                        ELSE delivered[sid]]
    /\ streams' = {IF s \in Recipients(tenant) /\ WriteFails(s)
                   THEN Deregister(s) ELSE s : s \in streams}
    /\ published' = Append(published,
                           [tenant_id |-> tenant, event_id |-> call.event_id,
                            registered |-> {s.sid : s \in Registered}])
    /\ pipeline' = pipeline \ {call}
    /\ resp' = Response("ingest", tenant, IF call.created THEN 201 ELSE 200,
                        [event_id |-> call.event_id, created |-> call.created])
    /\ pre' = {}
    /\ UNCHANGED <<table, used, clock, inflight, ingestOk, deletedOk,
                   racedIngest, racedAckDel, calls, limiterVars, consumed, dashboardVars>>

NextStream ==
    \/ \E h \in Requests, param \in TenantParams : Subscribe(h, param)
    \/ \E s \in streams : Unsubscribe(s)
    \/ \E s \in streams : Cancel(s)
    \/ \E s \in streams : Heartbeat(s)
    \/ \E s \in streams : Read(s)
    \/ \E tenant \in Tenants, code \in {400, 429} : IngestRejected(tenant, code)
    \/ \E tenant \in Tenants, id \in Ids : IngestExisting(tenant, id)
    \/ \E tenant \in Tenants, id \in Ids : IngestPersist(tenant, id)
    \/ \E call \in pipeline, written \in SUBSET streams : Publish(call, written)

SpecStream == Init /\ [][NextStream]_vars

\* the ingest calls run on: a call that has written its event goes on to
\* publish it and return, whatever the subscribers do
SpecStreamIngestFair ==
    SpecStream /\ \A id \in Ids :
        WF_vars(\E call \in pipeline, written \in SUBSET streams :
                    call.event_id = id /\ Publish(call, written))

\* the heartbeat is periodic: a registered stream whose heartbeat would fail
\* gets its heartbeat
SpecStreamHeartbeatFair ==
    SpecStream /\ \A sid \in StreamIds :
        WF_vars(\E s \in streams : s.sid = sid /\ Heartbeat(s))

(***************************************************************************)
(* The dashboard (EventLog): its local list of events is replaced by every *)
(* answer to GET /inbox and grows at the front by every event that arrives *)
(* on its stream.  The list answers come from the deployed handler; the    *)
(* stream and the publishing ingestion follow the design document.         *)
(***************************************************************************)
\* the headers of every request of the client: the same key twice
DashboardHeaders ==
    [scheme |-> "Bearer", key |-> "dev_key_123", x_api_key |-> "dev_key_123",
     api_key |-> None]

\* the EventSource url of the client carries the key as api_key
DashboardStream ==
    [scheme |-> "", key |-> "", x_api_key |-> None, api_key |-> "dev_key_123"]

\* the answer of the handler to GET /inbox
GetInboxResponse(h, po) ==
    LET tenant == get_tenant_from_auth(h)
        items == Scan(table, po, tenant)
    IN  IF tenant = None THEN Unauthorized("list")
        ELSE IF InboxRaises(items) THEN InternalError("list", tenant)
        ELSE Response("list", tenant, 200,
                      [events |-> InboxEvents(items), count |-> Len(items),
                       limit |-> ScanLimit])

\* the event of a stream frame as JSON: the event with its id and created_at
StreamData(frame) ==
    [id |-> frame.event_id,
     created_at |-> IF ItemsAt(table, frame.tenant_id, frame.event_id) = {}
                    THEN 0
                    ELSE (CHOOSE i \in ItemsAt(table, frame.tenant_id, frame.event_id) :
                              TRUE).created_at,
     status |-> "pending"]

\* the value of a property an object does not have (no uuid is numbered 0)
undefined == 0

\* convertEvent: {...backendEvent, timestamp: created_at, status: status || 'pending'};
\* the entry has an id only if the backend event has a field named id
convertEvent(backendEvent) ==
    [id |-> IF "id" \in DOMAIN backendEvent THEN backendEvent.id ELSE undefined,
     event_id |-> IF "event_id" \in DOMAIN backendEvent
                  THEN backendEvent.event_id ELSE undefined,
     created_at |-> backendEvent.created_at,
     timestamp |-> backendEvent.created_at,
     status |-> IF "status" \in DOMAIN backendEvent
                THEN backendEvent.status ELSE "pending"]

RECURSIVE SortNewestFirst(_)
\* Array.prototype.sort by created_at, newest first; the sort is stable
SortNewestFirst(seq) ==
    IF seq = <<>> THEN <<>>
    ELSE LET sorted == SortNewestFirst(SubSeq(seq, 1, Len(seq) - 1))
             x == seq[Len(seq)]
             k == Cardinality({n \in 1..Len(sorted) :
                                  sorted[n].created_at >= x.created_at})
         IN  SubSeq(sorted, 1, k) \o <<x>> \o SubSeq(sorted, k + 1, Len(sorted))

\* .slice(0, n)
Slice(seq, n) == SubSeq(seq, 1, IF Len(seq) < n THEN Len(seq) ELSE n)

\* fetchEvents up to the await: GET /inbox?limit=50 is answered by the handler
FetchEvents(po) ==
    LET r == GetInboxResponse(DashboardHeaders, po) IN
    /\ Cardinality(fetching) < MaxFetching
    /\ fetching' = fetching \cup {r}
    /\ resp' = r
    /\ pre' = {}
    /\ UNCHANGED <<table, used, clock, inflight, ingestOk, deletedOk,
                   racedIngest, racedAckDel, calls, limiterVars, fanoutVars,
                   events>>

\* fetchEvents after the await: setEvents(convertedEvents), or setError
FetchResponse(r) ==
    /\ r \in fetching
    /\ fetching' = fetching \ {r}
    /\ events' =
         IF r.code = 200
         THEN SortNewestFirst([n \in 1..Len(r.body.events) |->
                                  convertEvent(r.body.events[n])])
         ELSE events
    /\ UNCHANGED <<table, used, clock, inflight, resp, pre, ingestOk, deletedOk,
                   racedIngest, racedAckDel, calls, limiterVars, fanoutVars>>

\* onmessage of the dashboard's stream:
\* setEvents(prev => [convertedEvent, ...prev].slice(0, 100))
OnEvent(s) ==
    /\ s \in streams
    /\ s.connected
    /\ Unread(s) > 0
    /\ consumed' = [consumed EXCEPT ![s.sid] = @ + 1]
    /\ events' = Slice(<<convertEvent(StreamData(delivered[s.sid][consumed[s.sid] + 1]))>>
                          \o events, LocalCap)
    /\ UNCHANGED <<table, used, clock, inflight, resp, pre, ingestOk, deletedOk,
                   racedIngest, racedAckDel, calls, limiterVars,
                   streams, delivered, published, pipeline, fetching>>

\* the dashboard is mounted: its stream is open and registered
InitDashboard ==
    /\ table = {}
    /\ used = {}
    /\ clock = 0
    /\ inflight = {}
    /\ resp = Response("subscribe", "tenant_dev", 200, [stream |-> 1])
    /\ pre = {}
    /\ ingestOk = {}
    /\ deletedOk = {}
    /\ racedIngest = {}
    /\ racedAckDel = {}
    /\ calls = 0
    /\ limiterCount = [c \in DOMAIN API_KEYS |-> [window |-> 0, count |-> 0]]
    /\ admits = {}
    /\ allowed = [c \in DOMAIN API_KEYS |-> [w \in Windows |-> 0]]
    /\ streams = {[sid |-> 1, tenant_id |-> SubscribeTenant(DashboardStream, "tenant_dev"),
                   credential |-> Credential(DashboardStream),
                   registered |-> TRUE, connected |-> TRUE]}
    /\ delivered = [s \in StreamIds |-> <<>>]
    /\ published = <<>>
    /\ pipeline = {}
    /\ consumed = [s \in StreamIds |-> 0]
    /\ events = <<>>
    /\ fetching = {}

NextDashboard ==
    \/ Tick
    \/ \E id \in Ids : IngestPersist("tenant_dev", id)
    \/ \E call \in pipeline, written \in SUBSET streams : Publish(call, written)
    \/ \E s \in streams : OnEvent(s)
    \/ \E po \in PartitionOrders : FetchEvents(po)
    \/ \E r \in fetching : FetchResponse(r)

SpecDashboard == InitDashboard /\ [][NextDashboard]_vars


(***************************************************************************)
(* Properties                                                              *)
(***************************************************************************)
IdemKeys == {"k1"}

\* the stored events that carry (tenant, key)
EventsWithKey(t, k) ==
    {i \in table : /\ IsEvent(i)
                   /\ i.tenant_id = t
                   /\ "idempotency_key" \in DOMAIN i
                   /\ i.idempotency_key = k}

\* the event ids that POST /events has returned for (tenant, key)
IdsReturned(t, k) ==
    {x.event_id : x \in {y \in ingestOk : y.tenant_id = t /\ y.key = k}}

IngestInFlight(t, k) ==
    \E r \in inflight : /\ r.op = "ingest"
                        /\ r.tenant_id = t
                        /\ "idempotency_key" \in DOMAIN r.item
                        /\ r.item.idempotency_key = k

\* some event with this id is owned by a tenant other than t
ForeignEvent(tbl, t, id) ==
    \E i \in tbl : IsEvent(i) /\ i.event_id = id /\ i.tenant_id # t

\* C1: once the POST /events calls that overlapped on one (tenant, idempotency
\* key) have all returned, and none of their events was deleted, exactly one
\* stored event carries (tenant, key) and all the calls returned its id.
C1_ConcurrentIngestOneEvent ==
    \A t \in Tenants, k \in IdemKeys :
        ( /\ <<t, k>> \in racedIngest
          /\ ~IngestInFlight(t, k)
          /\ \A id \in IdsReturned(t, k) : <<t, id>> \notin deletedOk )
        => /\ Cardinality(EventsWithKey(t, k)) = 1
           /\ Cardinality(IdsReturned(t, k)) = 1

\* C2: in every state, the successful ingests of one (tenant, idempotency key)
\* have all returned the same event id, and the table holds at most one event
\* with that (tenant, key).
C2_IdempotencyKeyUnique ==
    \A t \in Tenants, k \in IdemKeys :
        /\ Cardinality(IdsReturned(t, k)) <= 1
        /\ Cardinality(EventsWithKey(t, k)) <= 1

\* C3: every event of a 200 response of GET /inbox is the listing of an item
\* of the caller's tenant, and of no item of another tenant, whatever query
\* was sent.
C3_ListTenantIsolation ==
    (resp.op = "list" /\ resp.code = 200) =>
        \A n \in 1..Len(resp.body.events) :
            /\ \E i \in table : /\ i.tenant_id = resp.caller
                                /\ ListFields \subseteq DOMAIN i
                                /\ InboxEvent(i) = resp.body.events[n]
            /\ ~\E i \in table : /\ i.tenant_id # resp.caller
                                 /\ i.event_id = resp.body.events[n].event_id
                                 /\ IsEvent(i)

\* C3 witness: a tenant got a non-empty listing while another tenant owns events
C3_Witness ==
    /\ resp.op = "list"
    /\ resp.code = 200
    /\ Len(resp.body.events) > 0
    /\ \E i \in table : IsEvent(i) /\ i.tenant_id # resp.caller

\* C4: the table call of an ack or a delete on the id of an event owned by
\* another tenant answers 404 and leaves the table as it was (the other
\* tenant's event unchanged, no item created under the caller).
C4_ForeignAckDeleteNotFound ==
    [][\A r \in inflight :
          ( /\ PostAckUpdate(r) \/ DeleteInboxDelete(r)
            /\ ForeignEvent(table, r.tenant_id, r.event_id) )
          => (resp'.code = 404 /\ table' = table)]_vars

AckOrDeleteInFlight(t, id) ==
    \E r \in inflight : r.op \in {"ack", "delete"} /\ r.tenant_id = t /\ r.event_id = id

\* C5: when an ack and a delete of the owner overlapped on one pending event
\* and no ack or delete of it is in flight any more, the delete has returned
\* success, the event is gone from the table (no acknowledged item, no item
\* created again under its key), and an ack whose table call came after the
\* delete was answered 409.
C5_AckDeleteRaceEndsDeleted ==
    \A key \in racedAckDel :
        ~AckOrDeleteInFlight(key[1], key[2]) =>
            /\ key \in deletedOk
            /\ ItemsAt(table, key[1], key[2]) = {}
            /\ ( /\ resp.op = "ack"
                 /\ resp.caller = key[1]
                 /\ "event_id" \in DOMAIN resp.body
                 /\ resp.body.event_id = key[2]
                 /\ pre = {} )
               => resp.code = 409

\* C6: an ack of the owner that reaches the table after the event's delete has
\* returned 200 is answered 409, and no item exists under the event's key.
C6_AckAfterDeleteInvalid ==
    ( /\ resp.op = "ack"
      /\ resp.caller # None
      /\ <<resp.caller, resp.body.event_id>> \in deletedOk )
    => /\ resp.code = 409
       /\ ItemsAt(table, resp.caller, resp.body.event_id) = {}

AckOk(t, id) == Response("ack", t, 200, [event_id |-> id, status |-> "acknowledged"])

\* C7: the table call of an ack that finds the caller's event pending or
\* acknowledged answers 200 {event_id, status: acknowledged}; when the event
\* was already acknowledged the table is left as it was.
C7_AckIdempotent ==
    [][\A r \in inflight :
          PostAckUpdate(r) =>
            \A i \in ItemsAt(table, r.tenant_id, r.event_id) :
                (IsEvent(i) /\ i.status \in {"pending", "acknowledged"}) =>
                    /\ resp' = AckOk(r.tenant_id, r.event_id)
                    /\ (i.status = "acknowledged" => table' = table)]_vars

\* C7 witness: an ack was answered 200 on an event that was acknowledged before
C7_Witness ==
    /\ resp.op = "ack"
    /\ resp.code = 200
    /\ \E i \in pre : IsEvent(i) /\ i.status = "acknowledged"
    /\ \E i \in ItemsAt(table, resp.caller, resp.body.event_id) :
          IsEvent(i) /\ i.status = "acknowledged"

DeleteOk(t, id) == Response("delete", t, 200, [event_id |-> id, status |-> "deleted"])

C9_ListOnlyPending ==
    (resp.op = "list" /\ resp.code = 200) =>
        \A n \in 1..Len(resp.body.events) : resp.body.events[n].status = "pending"

\* C10: no 200 response of GET /inbox holds the id of an event whose delete
\* has returned 200 to the same tenant.
C10_DeletedNeverListed ==
    (resp.op = "list" /\ resp.code = 200) =>
        \A n \in 1..Len(resp.body.events) :
            <<resp.caller, resp.body.events[n].event_id>> \notin deletedOk

\* C10 witness: a tenant got a non-empty listing after one of its events was deleted
C10_Witness ==
    /\ resp.op = "list"
    /\ resp.code = 200
    /\ Len(resp.body.events) > 0
    /\ \E key \in deletedOk : key[1] = resp.caller

\* C10 witness, second case: the listing was asked after an ack re-created an
\* item under the key of the deleted event
C10_WitnessAfterAck ==
    /\ resp.op = "list"
    /\ \E key \in deletedOk :
          key[1] = resp.caller /\ ItemsAt(table, key[1], key[2]) # {}

\* the (created_at, id) order of the pull listing
Before(a, b) ==
    \/ a.created_at < b.created_at
    \/ (a.created_at = b.created_at /\ a.event_id < b.event_id)

\* the pending events of a tenant
PendingOf(t) ==
    {i \in table : IsEvent(i) /\ i.tenant_id = t /\ i.status = "pending"}

NoCursor(body) == "next_cursor" \notin DOMAIN body

\* C11: a traversal of GET /inbox that has ended (a 200 response with no
\* next_cursor) holds the pending events it returned in ascending
\* (created_at, id) order, none of them twice, and holds every pending event
\* of the caller.
C11_TraversalOrderedComplete ==
    (resp.op = "list" /\ resp.code = 200 /\ NoCursor(resp.body)) =>
        LET ev == resp.body.events IN
        /\ \A m, n \in 1..Len(ev) :
              (m < n /\ ev[m].status = "pending" /\ ev[n].status = "pending")
                 => Before(ev[m], ev[n])
        /\ \A i \in PendingOf(resp.caller) :
              \E n \in 1..Len(ev) : ev[n].event_id = i.event_id

\* the stored events of a tenant that were created in one rate-limit window;
\* each of them is a request of the tenant's credential admitted in that window
StoredInWindow(t, w) ==
    {i \in table : IsEvent(i) /\ i.tenant_id = t /\ WindowOf(i.created_at) = w}

\* C12: the table call of a POST /events whose credential already has the
\* configured number of events stored from the request's window does not store:
\* the request is answered 429 with a retry_after above zero and the table is
\* left as it was.
C12_RateLimitedStoresNothing ==
    [][\A r \in inflight :
          ( /\ PostEventsPut(r)
            /\ Cardinality(StoredInWindow(r.tenant_id, WindowOf(r.item.created_at)))
                   >= RateLimitPerMinute )
          => /\ resp'.code = 429
             /\ resp'.body.retry_after > 0
             /\ table' = table]_vars

\* C13: in every window and for every credential, the admit calls answered
\* Allowed are at most the configured capacity, however the calls interleave.
C13_AllowedWithinCapacity ==
    \A c \in DOMAIN API_KEYS : \A w \in Windows : allowed[c][w] <= RateLimitPerMinute

\* C13 witness: a call that arrived while its credential had room is still
\* unanswered, and a concurrent call of the same credential has just been
\* answered Allowed and used up the capacity of the window
C13_Witness ==
    /\ resp.op = "admit"
    /\ resp.code = 200
    /\ \E a \in admits :
          /\ a.credential = resp.caller
          /\ a.seen < RateLimitPerMinute
          /\ limiterCount[a.credential] =
                [window |-> WindowOf(clock), count |-> RateLimitPerMinute]
          /\ allowed[a.credential][WindowOf(clock)] = RateLimitPerMinute

\* the request carries no credential, or one that is no key of API_KEYS
BadCredential(h) == Credential(h) \notin DOMAIN API_KEYS

BadRequests == {h \in AuthHeaders : BadCredential(h)}

\* the step answers 401 and changes nothing but the response
Refused(op) ==
    /\ resp' = Unauthorized(op)
    /\ UNCHANGED <<table, used, inflight, ingestOk, deletedOk, calls,
                   limiterVars, fanoutVars, dashboardVars>>

\* a step of the handler for op either answers as op or puts a request for op
\* at its table call
StepOf(op) ==
    \/ resp'.op = op
    \/ \E r \in inflight' : r \notin inflight /\ r.op = op

C14_SubscribeRefused ==
    [][\A h \in Requests, param \in TenantParams :
          (BadCredential(h) /\ Subscribe(h, param)) => Refused("subscribe")]_vars

\* the ids of the events written to a stream
DeliveredIds(sid) == {delivered[sid][n].event_id : n \in 1..Len(delivered[sid])}

\* the publish calls that carried the event
PublishesOf(id) == {k \in 1..Len(published) : published[k].event_id = id}

\* C15: every event written to a stream is an event of the tenant that the
\* stream's credential resolves to.
C15_StreamTenantIsolation ==
    \A s \in streams :
        \A n \in 1..Len(delivered[s.sid]) :
            delivered[s.sid][n].tenant_id = resolve(s.credential)

\* C15 witness: an event was published for one tenant while a stream of the
\* other tenant was registered, and a stream of the event's tenant received it
C15_Witness ==
    \E s1 \in streams, s2 \in streams, k \in 1..Len(published) :
        /\ resolve(s1.credential) # resolve(s2.credential)
        /\ published[k].tenant_id = resolve(s2.credential)
        /\ s1.sid \in published[k].registered
        /\ published[k].event_id \in DeliveredIds(s2.sid)
        /\ published[k].event_id \notin DeliveredIds(s1.sid)

\* C16: a stream holds no event twice, and holds an event only if the stream
\* was registered when that event was published.
C16_AtMostOnceNoReplay ==
    \A sid \in StreamIds :
        /\ \A m, n \in 1..Len(delivered[sid]) :
              delivered[sid][m].event_id = delivered[sid][n].event_id => m = n
        /\ \A e \in DeliveredIds(sid) :
              \E k \in PublishesOf(e) : sid \in published[k].registered

\* C16 witness: an event was written to a stream registered at its publish,
\* and a stream of the same tenant that subscribed later does not hold it
C16_Witness ==
    \E s \in Registered, s0 \in streams, k \in 1..Len(published) :
        /\ s.tenant_id = published[k].tenant_id
        /\ s.sid \notin published[k].registered
        /\ s0.sid \in published[k].registered
        /\ published[k].event_id \in DeliveredIds(s0.sid)
        /\ published[k].event_id \notin DeliveredIds(s.sid)

\* C17: the table call of a POST /events whose (tenant, idempotency key) is
\* already stored adds no row and changes none (the table stays as it was),
\* and the request is answered with a success code and the id of the stored
\* event, whatever the draft of the request holds.
C17_ExistingKeyReturnsExisting ==
    [][\A r \in inflight :
          ( /\ PostEventsPut(r)
            /\ "idempotency_key" \in DOMAIN r.item
            /\ EventsWithKey(r.tenant_id, r.item.idempotency_key) # {} )
          => /\ table' = table
             /\ resp'.code \in {200, 201}
             /\ \E i \in EventsWithKey(r.tenant_id, r.item.idempotency_key) :
                   resp'.body.event_id = i.event_id]_vars

\* C18: the table call of an ack or of a delete for an id that no POST /events
\* has drawn answers 404 and leaves the table as it was.
C18_UnknownIdNotFound ==
    [][\A r \in inflight :
          ( /\ PostAckUpdate(r) \/ DeleteInboxDelete(r)
            /\ r.event_id \notin used )
          => (resp'.code = 404 /\ table' = table)]_vars

\* the pending events of the caller that lie after the last event of a page
AfterPage(t, ev) ==
    {i \in PendingOf(t) : Len(ev) = 0 \/ Before(ev[Len(ev)], i)}

\* C19: a 200 response of GET /inbox carries a next_cursor exactly when some
\* pending event of the caller lies after the last event of the page in
\* (created_at, id) order, and the cursor is the (created_at, id) of that last
\* event.
C19_CursorIffMore ==
    (resp.op = "list" /\ resp.code = 200) =>
        LET ev == resp.body.events IN
        /\ ~NoCursor(resp.body) <=> AfterPage(resp.caller, ev) # {}
        /\ ~NoCursor(resp.body) =>
              /\ Len(ev) > 0
              /\ resp.body.next_cursor =
                    <<ev[Len(ev)].created_at, ev[Len(ev)].event_id>>

\* the requests that carry their credential in headers only
HeaderRequests == {h \in Requests : h.api_key = None}

\* C20: POST /events authenticates a request as the tenant of its first
\* non-empty credential, the bearer token before the X-API-Key header: the
\* request is answered 401 only if that credential is no key of API_KEYS, and
\* otherwise goes on as the tenant of that key.
C20_CredentialPrecedence ==
    [][StepOf("ingest") =>
          \A h \in HeaderRequests, body \in Bodies :
             PostEvents(h, body) =>
                LET tenant == resolve(Credential(h)) IN
                IF tenant = None
                THEN resp' = Unauthorized("ingest")
                ELSE /\ resp' # Unauthorized("ingest")
                     /\ \A r \in inflight' : r \notin inflight => r.tenant_id = tenant]_vars

\* ---- C21 ----
\* the events of other tenants that carry the idempotency key of item
SameKeyElsewhere(tbl, item) ==
    {i \in tbl : /\ IsEvent(i)
                 /\ i.tenant_id # item.tenant_id
                 /\ "idempotency_key" \in DOMAIN i
                 /\ "idempotency_key" \in DOMAIN item
                 /\ i.idempotency_key = item.idempotency_key}

\* C21: idempotency keys are scoped to the tenant: an ingest with key K by a
\* tenant, while another tenant already holds an event with key K, creates an
\* event of its own (201, status created), returns that event and not the other
\* tenant's, and leaves the other tenant's event as it was.
C21_KeysTenantScoped ==
    [][\A r \in inflight :
          (PostEventsPut(r) /\ SameKeyElsewhere(table, r.item) # {})
          => /\ resp'.code = 201
             /\ resp'.body.status = "created"
             /\ ItemsAt(table', r.tenant_id, resp'.body.event_id) = {r.item}
             /\ \A i \in SameKeyElsewhere(table, r.item) :
                   /\ i \in table'
                   /\ i.event_id # resp'.body.event_id]_vars

\* both tenants hold an event with the same key, the second one just created
C21_Witness ==
    /\ resp.op = "ingest"
    /\ resp.code = 201
    /\ \E i \in table : /\ i.tenant_id = resp.caller
                        /\ i.event_id = resp.body.event_id
                        /\ SameKeyElsewhere(table, i) # {}

\* ---- C22 ----
\* a body the payload validation rejects: not a JSON object, or a required
\* field missing
InvalidPayload(body) == JsonLoadsRaises(body) \/ MissingField(body)

\* the credential of tenant t has used up the capacity of the window of now
OverLimit(t, now) ==
    Cardinality(StoredInWindow(t, WindowOf(now))) >= RateLimitPerMinute

\* C22: the gates of an authenticated ingest run in the order payload
\* validation, rate limiter, idempotency lookup: a request with an invalid
\* payload is answered 400 and stores nothing, also when its credential is over
\* the limit; a request over the limit is answered 429 and stores nothing, also
\* when the tenant already holds an event with its idempotency key.
C22_GateOrder ==
    [][/\ StepOf("ingest")
          => \A h \in AuthHeaders : \A body \in Bodies :
                ( /\ PostEvents(h, body)
                  /\ get_tenant_from_auth(h) # None
                  /\ InvalidPayload(body) )
                => (resp'.code = 400 /\ table' = table)
       /\ \A r \in inflight :
             ( /\ PostEventsPut(r)
               /\ OverLimit(r.tenant_id, r.item.created_at)
               /\ "idempotency_key" \in DOMAIN r.item
               /\ EventsWithKey(r.tenant_id, r.item.idempotency_key) # {} )
             => (resp'.code = 429 /\ table' = table)]_vars

\* C22, the part about the limiter alone: a keyed request over the limit whose
\* key the tenant already holds is answered 429
C22_OverLimitBeforeLookup ==
    [][\A r \in inflight :
          ( /\ PostEventsPut(r)
            /\ OverLimit(r.tenant_id, r.item.created_at)
            /\ "idempotency_key" \in DOMAIN r.item
            /\ EventsWithKey(r.tenant_id, r.item.idempotency_key) # {} )
          => resp'.code = 429]_vars

\* ---- C23 ----
\* C23: an ingest that starts after another ingest of the same tenant has
\* returned gets an event that sorts strictly after the returned one in
\* (created_at, id) order, also when both get the same created_at: every event
\* the tenant holds when a request draws its id and timestamp sorts before the
\* item the request is about to store.
C23_ReturnedBeforeStartedSortsBefore ==
    [][\A r \in inflight' \ inflight :
          r.op = "ingest"
          => \A i \in table :
                (IsEvent(i) /\ i.tenant_id = r.tenant_id) => Before(i, r.item)]_vars

\* ---- C28 ----
\* pending < acknowledged < deleted
StatusRank(st) ==
    CASE st = "pending" -> 0
      [] st = "acknowledged" -> 1
      [] OTHER -> 2

\* C28: an event's status only moves forward (pending, acknowledged, deleted):
\* an item under the key of a deleted event never exists again, a stored event
\* never returns to an earlier status, and a step changes no field of a stored
\* event other than its status.
C28_StatusMovesForward ==
    [][\A t \in Tenants : \A id \in Ids :
          /\ <<t, id>> \in deletedOk => ItemsAt(table', t, id) = {}
          /\ \A i \in ItemsAt(table, t, id) :
                IsEvent(i)
                => \A j \in ItemsAt(table', t, id) :
                      /\ j = [i EXCEPT !.status = j.status]
                      /\ StatusRank(i.status) <= StatusRank(j.status)]_vars

\* C28 without the deleted state: a stored event never returns to an earlier
\* status and keeps every other field
C28_StoredEventKeepsFields ==
    [][\A t \in Tenants : \A id \in Ids :
          \A i \in ItemsAt(table, t, id) :
             IsEvent(i)
             => \A j \in ItemsAt(table', t, id) :
                   /\ j = [i EXCEPT !.status = j.status]
                   /\ StatusRank(i.status) <= StatusRank(j.status)]_vars

\* ---- C29 ----
\* C29: every item of the table has all the fields GET /inbox reads, so an
\* authenticated GET /inbox is answered 200 and never 500; in particular no
\* item exists under an id that was not ingested.
C29_RowsCompleteListNever500 ==
    /\ \A i \in table : ListFields \subseteq DOMAIN i
    /\ (resp.op = "list" /\ resp.caller # None) => resp.code = 200

\* C29, the response alone: an authenticated GET /inbox is never answered 500
C29_ListNever500 ==
    (resp.op = "list" /\ resp.caller # None) => resp.code = 200

\* ---- C24 ----
\* the ingest call of event id has written its event and has not returned
InPipeline(id) == \E call \in pipeline : call.event_id = id

\* C24: ingestion never waits for subscribers: every ingest call that has
\* passed its gates and written its event returns, with the event as its
\* result, whether its tenant has no subscriber, one that never reads or one
\* that has disconnected and is still registered.
C24_IngestNeverWaits ==
    /\ \A id \in Ids : InPipeline(id) ~> ~InPipeline(id)
    /\ [][\A call \in pipeline :
             call \notin pipeline'
             => resp' = Response("ingest", call.tenant_id, 201,
                                 [event_id |-> call.event_id, created |-> TRUE])]_vars

\* C24 witness: an ingest call has returned its event although a registered
\* stream of its tenant has never read and had no room for the frame
C24_Witness ==
    \E s \in Registered, k \in 1..Len(published) :
        /\ resp = Response("ingest", s.tenant_id, 201,
                           [event_id |-> published[k].event_id, created |-> TRUE])
        /\ s.sid \in published[k].registered
        /\ consumed[s.sid] = 0
        /\ Unread(s) = QueueCap
        /\ published[k].event_id \notin DeliveredIds(s.sid)

\* a second case of C24: the call has returned while a stream of its tenant
\* whose client had gone was still registered
C24_WitnessDisconnected ==
    \E s \in streams, k \in 1..Len(published) :
        /\ resp = Response("ingest", s.tenant_id, 201,
                           [event_id |-> published[k].event_id, created |-> TRUE])
        /\ s.sid \in published[k].registered
        /\ ~s.connected
        /\ ~s.registered
        /\ published[k].event_id \notin DeliveredIds(s.sid)

\* ---- C25 ----
\* the client of stream sid has closed it and the server still holds the
\* registration
CancelledRegistered(sid) == \E s \in Registered : s.sid = sid /\ ~s.connected

\* C25: after a client cancels its stream the registration is eventually
\* removed; a publish to the stream's tenant (a write attempt) removes it at
\* once; and a stream holds no event published while it was not registered.
C25_CancelDeregisters ==
    /\ \A sid \in StreamIds :
          CancelledRegistered(sid) ~> (\A s \in Registered : s.sid # sid)
    /\ [][\A s \in Registered :
             ( /\ ~s.connected
               /\ Len(published') > Len(published)
               /\ published'[Len(published')].tenant_id = s.tenant_id )
             => \A t \in streams' : t.sid = s.sid => ~t.registered]_vars
    /\ [](\A sid \in StreamIds : \A e \in DeliveredIds(sid) :
             \E k \in PublishesOf(e) : sid \in published[k].registered)

\* C25 witness: a stream that received an event was cancelled by its client
\* and deregistered, and an event of its tenant published after the removal
\* was not written to it
C25_Witness ==
    \E s \in streams, k \in 1..Len(published) :
        /\ ~s.connected
        /\ ~s.registered
        /\ DeliveredIds(s.sid) # {}
        /\ published[k].tenant_id = s.tenant_id
        /\ s.sid \notin published[k].registered
        /\ published[k].event_id \notin DeliveredIds(s.sid)

\* ---- C26 ----
\* the position of the first publish call that carried the event
PublishedAt(id) == CHOOSE k \in PublishesOf(id) : \A j \in PublishesOf(id) : k <= j

C27_PublishedOnceByCreator ==
    [][/\ Len(published') > Len(published)
          => LET p == published'[Len(published')] IN
             /\ published' = Append(published, p)
             /\ PublishesOf(p.event_id) = {}
             /\ \E i \in ItemsAt(table, p.tenant_id, p.event_id) : IsEvent(i)
             /\ \E call \in pipeline :
                   /\ call.created
                   /\ call.event_id = p.event_id
                   /\ call.tenant_id = p.tenant_id
                   /\ call \notin pipeline'
       /\ (resp' # resp /\ resp'.op = "ingest" /\ resp'.code # 201)
          => (published' = published /\ delivered' = delivered
              /\ pipeline' = pipeline)
       /\ delivered' # delivered => Len(published') > Len(published)]_vars

\* C27 witness: an event was published once and written to a stream, and a
\* later ingest that resolved to it was answered created = false
C27_Witness ==
    \E sid \in StreamIds : \E e \in DeliveredIds(sid) :
        /\ resp.op = "ingest"
        /\ resp.body = [event_id |-> e, created |-> FALSE]
        /\ Cardinality(PublishesOf(e)) = 1
        /\ pipeline = {}

\* the deployed handler publishes nothing, whatever the request (in Spec)
C27_HandlerNeverPublishes ==
    [][published' = published /\ delivered' = delivered /\ pipeline' = pipeline]_vars

\* ---- C30 ----
\* C30: whatever the order of the answers to GET /inbox and of the stream
\* events, the dashboard's list holds no two entries with the same id (the
\* React key) and at most 100 entries.
C30_LocalListDistinctAtMost100 ==
    /\ \A m, n \in 1..Len(events) : events[m].id = events[n].id => m = n
    /\ Len(events) <= LocalCap

\* the event an entry of the list stands for: its id, or the event_id the
\* handler sent
EntryEvent(entry) == IF entry.id # undefined THEN entry.id ELSE entry.event_id

\* C30 for the events themselves: the list holds no event twice
C30_LocalListNoEventTwice ==
    \A m, n \in 1..Len(events) :
        EntryEvent(events[m]) = EntryEvent(events[n]) => m = n

====
